---- MODULE Spec2Model ----
(***************************************************************************)
(* A model of the novel downloader: the asyncio pipeline of main.py        *)
(* (main, fetch, download_chapter, save_chapter) and the resumable index   *)
(* of storage.py (StorageHandler).                                         *)
(*                                                                         *)
(* Coroutines are interleaved at their await points; the code between two  *)
(* awaits of one coroutine runs without interruption on the event loop.    *)
(* Text is a sequence of one-character strings.                            *)
(***************************************************************************)
EXTENDS Integers, Sequences, FiniteSets, TLC

\* ------------------------------------------------------------------------
\* Bounds of the model
\* ------------------------------------------------------------------------
\* longest table of contents (number of matched links)
MaxLinks == 3
\* largest capacity the semaphore is created with
MaxLimit == 2
\* number of save_chapter calls made on one StorageHandler
MaxCalls == 2

\* ------------------------------------------------------------------------
\* Program constants
\* ------------------------------------------------------------------------
RETRIES == 3

\* an optional string is <<>> (None) or <<s>>
None == <<>>
Some(s) == <<s>>

\* ------------------------------------------------------------------------
\* Text helpers
\* ------------------------------------------------------------------------
Whitespace == {" ", "\n"}

IllegalChars == {"\\", "/", "*", "?", ":", "\"", "<", ">", "|"}

RECURSIVE lstrip(_)
lstrip(s) ==
    IF s # <<>> /\ Head(s) \in Whitespace THEN lstrip(Tail(s)) ELSE s

RECURSIVE rstrip(_)
rstrip(s) ==
    IF s # <<>> /\ s[Len(s)] \in Whitespace
    THEN rstrip(SubSeq(s, 1, Len(s) - 1))
    ELSE s

\* str.strip()
strip(s) == rstrip(lstrip(s))

IsLegalChar(c) == c \notin IllegalChars

\* re.sub(r'[\\/*?:"<>|]', "", filename).strip()
clean_filename(filename) == strip(SelectSeq(filename, IsLegalChar))

\* the decimal digits of n, most significant first
RECURSIVE Digits(_)
Digits(n) == IF n < 10 THEN <<n>> ELSE Digits(n \div 10) \o <<n % 10>>

RECURSIVE ZeroPad(_, _)
ZeroPad(d, w) == IF Len(d) >= w THEN d ELSE ZeroPad(<<0>> \o d, w)

\* f"{chapter_idx:04d}_{clean_filename(title)}.txt"
chapter_filename(chapter_idx, title) ==
    <<ZeroPad(Digits(chapter_idx), 4), clean_filename(title)>>

\* [line.strip() for line in content_lines if line.strip()]
RECURSIVE stripped_lines(_)
stripped_lines(content_lines) ==
    IF content_lines = <<>> THEN <<>>
    ELSE IF strip(Head(content_lines)) # <<>>
         THEN <<strip(Head(content_lines))>> \o stripped_lines(Tail(content_lines))
         ELSE stripped_lines(Tail(content_lines))

\* "\n".join(parts)
RECURSIVE join_lines(_)
join_lines(parts) ==
    IF parts = <<>> THEN <<>>
    ELSE IF Len(parts) = 1 THEN Head(parts)
         ELSE Head(parts) \o <<"\n">> \o join_lines(Tail(parts))

\* content = "\n".join([line.strip() for line in content_lines if line.strip()])
chapter_content(content_lines) == join_lines(stripped_lines(content_lines))

\* Python truthiness of an optional string: None and "" are falsy
Truthy(o) == o # None /\ o[1] # <<>>

\* ------------------------------------------------------------------------
\* Response bodies and their decoding (fetch, lines 47-74)
\* ------------------------------------------------------------------------
\* the candidate encodings, in the order the loop tries them
Candidates == <<"utf-8", "gb18030", "gbk", "gb2312", "big5">>

\* Classes of byte strings, by the codecs that decode them without error.
StrictCodecs(cls) ==
    CASE cls = "empty" -> {"utf-8", "gb18030", "gbk", "gb2312", "big5"}
      [] cls = "ascii" -> {"utf-8", "gb18030", "gbk", "gb2312", "big5"}
      [] cls = "utf8"  -> {"utf-8"}
      [] cls = "gbk"   -> {"gb18030", "gbk"}
      [] cls = "big5"  -> {"big5"}
      [] OTHER         -> {}

\* bytes.decode(codec) succeeds; an unknown codec name raises LookupError
CanDecode(codec, cls) == codec \in StrictCodecs(cls)

\* A body is [gz, cls]: gz = "plain" (no gzip magic), "gzip" (magic and a
\* valid stream whose payload has class cls) or "badgzip" (magic, but
\* decompression raises; the bytes as received have class cls).
\* raw[:2] == b'\x1f\x8b' and gzip.decompress(raw), keeping raw on error
gunzip(raw) ==
    IF raw.gz = "gzip"
    THEN [of |-> "inflated", cls |-> raw.cls]
    ELSE [of |-> "received", cls |-> raw.cls]

\* the text that decoding the bytes b with a codec yields
Text(b, codec, lossy) ==
    [of |-> b.of, cls |-> b.cls, codec |-> codec, lossy |-> lossy]

\* fetch's "return None"
NoText == [of |-> "none", cls |-> "none", codec |-> "none", lossy |-> FALSE]

RECURSIVE try_candidates(_, _)
try_candidates(b, k) ==
    IF k > Len(Candidates) THEN Text(b, "utf-8", TRUE)
    ELSE IF CanDecode(Candidates[k], b.cls) THEN Text(b, Candidates[k], FALSE)
         ELSE try_candidates(b, k + 1)

\* decode without line 74: nothing is returned when no candidate decodes
decode_without_fallback(raw, encoding) ==
    IF encoding # "auto" /\ CanDecode(encoding, gunzip(raw).cls)
    THEN Text(gunzip(raw), encoding, FALSE)
    ELSE IF \E k \in 1..Len(Candidates) : CanDecode(Candidates[k], gunzip(raw).cls)
         THEN try_candidates(gunzip(raw), 1)
         ELSE NoText

\* decode with the candidates tried before the hinted codec
decode_hint_last(raw, encoding) ==
    IF \E k \in 1..Len(Candidates) : CanDecode(Candidates[k], gunzip(raw).cls)
    THEN try_candidates(gunzip(raw), 1)
    ELSE IF encoding # "auto" /\ CanDecode(encoding, gunzip(raw).cls)
         THEN Text(gunzip(raw), encoding, FALSE)
         ELSE Text(gunzip(raw), "utf-8", TRUE)

\* lines 50-74 of fetch: gunzip, the hinted codec, the candidates, the
\* lossy utf-8 fallback
decode(raw, encoding) ==
    IF encoding # "auto" /\ CanDecode(encoding, gunzip(raw).cls)
    THEN Text(gunzip(raw), encoding, FALSE)
    ELSE try_candidates(gunzip(raw), 1)

\* "if not html": None and the empty string are falsy
Falsy(html) == html = NoText \/ html.cls = "empty"

\* lines 46-77 of fetch: what one response with a readable body returns
fetch_on_response(status, raw, encoding) ==
    IF status = 200 THEN decode(raw, encoding) ELSE NoText

\* a loop that runs one pass too many
range_has_next_off_by_one(i) == i + 1 <= RETRIES

\* for i in range(RETRIES): another pass after pass i
range_has_next(i) == i + 1 < RETRIES

\* What session.get and response.read do in one pass of the loop: the get
\* raises (connection error, timeout), the status is 200 but reading the
\* body raises, or a response arrives (with its body when the status is
\* 200).
NoBody == [gz |-> "none", cls |-> "none"]
GetRaises == [kind |-> "get_raises", status |-> 0, raw |-> NoBody]
ReadRaises == [kind |-> "read_raises", status |-> 200, raw |-> NoBody]
Response(status, raw) == [kind |-> "response", status |-> status, raw |-> raw]

\* One pass of the loop of fetch (lines 43-80) with loop variable i, and
\* line 81 after the last pass: whether fetch returns, what it returns,
\* and the loop variable of the next pass.  An exception is printed (line
\* 79) and followed by the sleep of line 80.
fetch_pass(i, outcome, encoding) ==
    IF outcome.kind = "response"
    THEN [returned |-> TRUE,
          value |-> fetch_on_response(outcome.status, outcome.raw, encoding),
          i |-> i]
    ELSE [returned |-> ~range_has_next(i), value |-> NoText, i |-> i + 1]

\* ------------------------------------------------------------------------
\* The environment
\* ------------------------------------------------------------------------
\* status codes a server answers with
Statuses == {200, 204, 404}

\* bodies a server answers with in a run of the pipeline
Bodies == {[gz |-> "gzip", cls |-> "gbk"],
           [gz |-> "badgzip", cls |-> "junk"],
           [gz |-> "plain", cls |-> "empty"]}

\* what one pass of fetch can meet in a run of the pipeline
Outcomes ==
    {GetRaises, ReadRaises}
    \cup {Response(s, NoBody) : s \in Statuses \ {200}}
    \cup {Response(200, raw) : raw \in Bodies}

\* bodies and encoding hints a single fetch call is examined with
AllBodies ==
    {[gz |-> "plain", cls |-> c] : c \in {"empty", "ascii", "utf8", "gbk", "big5", "junk"}}
    \cup {[gz |-> "gzip", cls |-> c] : c \in {"empty", "ascii", "utf8", "gbk", "big5", "junk"}}
    \cup {[gz |-> "badgzip", cls |-> c] : c \in {"gbk", "big5", "junk"}}

Hints == {"auto", "utf-8", "gbk", "big5", "no-such-codec"}

\* values of site_config['encoding'] in sites.yaml
SiteEncodings == {"gbk"}

\* what sel.css(rules["chapter_title"]).get() yields
SelTitles == {None, Some(<<>>), Some(<<"T", "/", "1", " ">>)}

\* what sel.css(rules["chapter_content"]).getall() yields
SelLines == {<< <<" ">>, <<"\n">> >>, << <<" ", "a">>, <<>>, <<"b", " ">> >>}

\* the href of the link at position p of the table of contents
UrlOf(p) == <<"chapter", p>>

\* the tables of contents of the site: per matched link, whether it carries
\* the configured link attribute
Tocs == UNION {[1..n -> BOOLEAN] : n \in 0..MaxLinks}

\* 0 is main's own fetch of the table of contents, t >= 1 the t-th task
Callers == 0..MaxLinks
Tasks == 1..MaxLinks
Calls == 1..MaxCalls

\* ------------------------------------------------------------------------
\* State
\* ------------------------------------------------------------------------
VARIABLES
    \* the environment
    limit,            \* CONCURRENCY, the capacity the semaphore is created with
    site_toc,         \* the links the chapter_list selector matches on the site
    \* the disk
    novel_files,      \* downloads/NOVEL_NAME/: filename -> chunks written
    meta,             \* downloads/NOVEL_NAME/meta.json
    novel_dir,        \* whether downloads/NOVEL_NAME/ exists
    chapter_files,    \* StorageHandler.chapter_dir: filename -> chunks written
    index_file,       \* StorageHandler.index_path (index.json)
    \* main()
    mainpc,           \* position of main
    site_config,      \* the encoding of the resolved rule, "unset" before
    links,            \* sel.css(rules["chapter_list"])
    tasks,            \* the tasks list: the arguments of each download_chapter
    semaphore,        \* asyncio.Semaphore._value
    fetch_i,          \* per caller: the loop variable i of its fetch call
    \* download_chapter(), per task
    pc, title, content_lines, content,
    reported,         \* the outcome line the task printed
    logged_error,     \* whether save_chapter logged a write error
    \* StorageHandler
    downloaded_chapters,  \* the in-memory index
    save_pc, save_args,   \* per save_chapter call: position and arguments
    save_result,          \* per call: what the caller observes
    save_failed,          \* per call: the write that raised ("none" if none)
    \* one fetch call, looked at on its own
    call_pc, call_encoding, call_i, call_ret,
    call_gets,        \* session.get calls made
    call_resp,        \* status of the last response, 0 if none
    call_body         \* the body read from it

disk_vars == <<novel_files, meta, novel_dir, chapter_files, index_file>>
main_vars == <<mainpc, site_config, links, tasks, semaphore, fetch_i>>
task_vars == <<pc, title, content_lines, content, reported, logged_error>>
storage_vars == <<downloaded_chapters, save_pc, save_args, save_result,
                  save_failed>>
call_vars == <<call_pc, call_encoding, call_i, call_ret, call_gets, call_resp,
               call_body>>
pipeline_vars == <<limit, site_toc, novel_files, meta, novel_dir, main_vars,
                   task_vars>>
vars == <<limit, site_toc, disk_vars, main_vars, task_vars, storage_vars,
          call_vars>>

\* ------------------------------------------------------------------------
\* Maps and files
\* ------------------------------------------------------------------------
EmptyMap == [k \in {} |-> {}]

\* d[k] = v
Put(d, k, v) == [x \in DOMAIN d \cup {k} |-> IF x = k THEN v ELSE d[x]]

\* f.write(title + "\n\n")
title_chunk(t) == t \o <<"\n", "\n">>

\* A file is the sequence of the chunks written to it; a writer writes its
\* k-th chunk at its own offset, leaving a hole where the file was
\* truncated under it by another open.
Hole == <<"NUL">>

write_at(chunks, k, data) ==
    [n \in 1..(IF Len(chunks) > k THEN Len(chunks) ELSE k) |->
        IF n = k THEN data
        ELSE IF n <= Len(chunks) THEN chunks[n] ELSE Hole]

\* ------------------------------------------------------------------------
\* StorageHandler: the index (storage.py)
\* ------------------------------------------------------------------------
\* re.sub(r'[\\/*?:"<>|]', "", s).strip(), "Unknown" for an empty s
clean_str(s) == IF s = <<>> THEN <<"Unknown">> ELSE strip(SelectSeq(s, IsLegalChar))

\* f"{idx:04d}_{safe_title}.txt"
storage_filename(idx, t) == <<ZeroPad(Digits(idx), 4), clean_str(t)>>

\* the entry save_chapter records for a chapter
index_entry(idx, t) ==
    [idx |-> idx, title |-> clean_str(t), file |-> storage_filename(idx, t)]

\* index.json is absent, holds a dumped map, or is torn (not valid JSON)
NoIndexFile == [state |-> "absent", map |-> EmptyMap]
Dumped(m) == [state |-> "ok", map |-> m]
TornIndexFile == [state |-> "torn", map |-> EmptyMap]

\* _load_index: {} when the file is absent or does not parse
load_index(f) == IF f.state = "ok" THEN f.map ELSE EmptyMap

\* is_downloaded: chapter_url in self.downloaded_chapters
is_downloaded(chapter_url, index) == chapter_url \in DOMAIN index

\* ------------------------------------------------------------------------
\* main(): the table of contents
\* ------------------------------------------------------------------------
\* urljoin(TARGET_URL, href)
urljoin(href) == <<"TARGET_URL", href>>

\* link.attrib.get(rules["chapter_link_attr"]) of the link at position p
href_of(p, has_attr) == IF has_attr THEN Some(UrlOf(p)) ELSE None

\* lines 177-189: enumerate(links) from position e (0-based), skipping the
\* links without href, numbering the tasks idx+1
RECURSIVE create_tasks(_, _)
create_tasks(ls, e) ==
    IF e >= Len(ls) THEN <<>>
    ELSE IF ls[e + 1] = None THEN create_tasks(ls, e + 1)
         ELSE <<[url |-> urljoin(ls[e + 1][1]), idx |-> e + 1]>>
              \o create_tasks(ls, e + 1)

\* the index and chapter files an earlier run left for chapters 1..n
PriorTitle == <<"T", "/", "1", " ">>
PriorContent == <<"a", "\n", "b">>
PriorIndex(n) ==
    [u \in {urljoin(UrlOf(p)) : p \in 1..n} |->
        index_entry((CHOOSE p \in 1..n : urljoin(UrlOf(p)) = u), PriorTitle)]
PriorFiles(n) ==
    [f \in {storage_filename(p, PriorTitle) : p \in 1..n} |->
        <<title_chunk(PriorTitle), PriorContent>>]

\* ------------------------------------------------------------------------
\* Initial states
\* ------------------------------------------------------------------------
NoArgs == [idx |-> 0, title |-> <<>>, content |-> <<>>, url |-> <<>>]

StorageIdle ==
    /\ downloaded_chapters = EmptyMap
    /\ save_pc = [c \in Calls |-> "idle"]
    /\ save_args = [c \in Calls |-> NoArgs]
    /\ save_result = [c \in Calls |-> "none"]
    /\ save_failed = [c \in Calls |-> "none"]

CallIdle ==
    /\ call_pc = "idle"
    /\ call_encoding = "auto"
    /\ call_i = 0
    /\ call_ret = NoText
    /\ call_gets = 0
    /\ call_resp = 0
    /\ call_body = NoBody

PipelineIdle ==
    /\ mainpc = "start"
    /\ site_config = "unset"
    /\ links = <<>>
    /\ tasks = <<>>
    /\ semaphore = 0
    /\ fetch_i = [c \in Callers |-> 0]
    /\ pc = [t \in Tasks |-> "none"]
    /\ title = [t \in Tasks |-> None]
    /\ content_lines = [t \in Tasks |-> <<>>]
    /\ content = [t \in Tasks |-> <<>>]
    /\ reported = [t \in Tasks |-> "none"]
    /\ logged_error = [t \in Tasks |-> FALSE]
    /\ novel_files = EmptyMap
    /\ meta = [writes |-> 0, total_chapters |-> 0, status |-> "none"]
    /\ novel_dir = FALSE

\* A run of main.py: any capacity, any table of contents; an earlier run
\* has recorded chapter 1 in the index.
Init ==
    /\ limit \in 1..MaxLimit
    /\ site_toc \in Tocs
    /\ index_file = Dumped(PriorIndex(1))
    /\ chapter_files = PriorFiles(1)
    /\ PipelineIdle
    /\ StorageIdle
    /\ CallIdle

\* ------------------------------------------------------------------------
\* main(), lines 122-197
\* ------------------------------------------------------------------------
TaskIds == 1..Len(tasks)

\* main fetches the table of contents with the default 'auto'; the tasks
\* pass the encoding of the rule
encoding_arg(c) == IF c = 0 THEN "auto" ELSE site_config

\* the directory is created before the rule is looked up
main_no_rule_after_makedirs ==
    /\ mainpc = "start"
    /\ mainpc' = "done"
    /\ novel_dir' = TRUE
    /\ UNCHANGED <<site_config, links, tasks, semaphore, fetch_i>>
    /\ UNCHANGED <<novel_files, meta, chapter_files, index_file>>
    /\ UNCHANGED <<limit, site_toc, task_vars, storage_vars, call_vars>>

\* lines 129-134: no rule matches the domain of TARGET_URL
main_no_rule ==
    /\ mainpc = "start"
    /\ mainpc' = "done"
    /\ UNCHANGED <<site_config, links, tasks, semaphore, fetch_i>>
    /\ UNCHANGED <<limit, site_toc, disk_vars, task_vars, storage_vars, call_vars>>

\* lines 135-154: a rule is found; the directory and the semaphore are
\* created and fetch is called for the table of contents
main_rule_found ==
    /\ mainpc = "start"
    /\ \E encoding \in SiteEncodings : site_config' = encoding
    /\ novel_dir' = TRUE
    /\ semaphore' = limit
    /\ fetch_i' = [fetch_i EXCEPT ![0] = 0]
    /\ mainpc' = "toc_fetch"
    /\ UNCHANGED <<links, tasks>>
    /\ UNCHANGED <<novel_files, meta, chapter_files, index_file>>
    /\ UNCHANGED <<limit, site_toc, task_vars, storage_vars, call_vars>>

\* line 154: a pass of fetch raises and fetch goes on to its next pass
main_toc_retry ==
    /\ mainpc = "toc_fetch"
    /\ \E o \in Outcomes :
          /\ ~fetch_pass(fetch_i[0], o, encoding_arg(0)).returned
          /\ fetch_i' = [fetch_i EXCEPT ![0] =
                            fetch_pass(fetch_i[0], o, encoding_arg(0)).i]
    /\ UNCHANGED <<mainpc, site_config, links, tasks, semaphore>>
    /\ UNCHANGED <<limit, site_toc, disk_vars, task_vars, storage_vars, call_vars>>

\* lines 154-157: fetch returns nothing for the table of contents
main_toc_failed ==
    /\ mainpc = "toc_fetch"
    /\ \E o \in Outcomes :
          /\ fetch_pass(fetch_i[0], o, encoding_arg(0)).returned
          /\ Falsy(fetch_pass(fetch_i[0], o, encoding_arg(0)).value)
    /\ mainpc' = "done"
    /\ fetch_i' = [fetch_i EXCEPT ![0] = 0]
    /\ UNCHANGED <<site_config, links, tasks, semaphore>>
    /\ UNCHANGED <<limit, site_toc, disk_vars, task_vars, storage_vars, call_vars>>

\* lines 154-195: fetch returns the table of contents; the links are
\* matched, meta.json is written, one task is created per link with an
\* href, and main awaits gather (or, without tasks, prints the warning and
\* ends)
main_create_tasks ==
    /\ mainpc = "toc_fetch"
    /\ \E o \in Outcomes :
          /\ fetch_pass(fetch_i[0], o, encoding_arg(0)).returned
          /\ ~Falsy(fetch_pass(fetch_i[0], o, encoding_arg(0)).value)
    /\ fetch_i' = [fetch_i EXCEPT ![0] = 0]
    /\ links' = [p \in 1..Len(site_toc) |-> href_of(p, site_toc[p])]
    /\ meta' = [writes |-> meta.writes + 1,
                total_chapters |-> Len(links'),
                status |-> "downloading"]
    /\ tasks' = create_tasks(links', 0)
    /\ pc' = [t \in Tasks |-> IF t <= Len(tasks') THEN "wait" ELSE pc[t]]
    /\ mainpc' = IF tasks' # <<>> THEN "gather" ELSE "done"
    /\ UNCHANGED <<site_config, semaphore>>
    /\ UNCHANGED <<title, content_lines, content, reported, logged_error>>
    /\ UNCHANGED <<novel_files, novel_dir, chapter_files, index_file>>
    /\ UNCHANGED <<limit, site_toc, storage_vars, call_vars>>

\* asyncio.gather(*tasks) without return_exceptions: the await ends when
\* every task has returned, or as soon as one task has raised
gather_ends(pcs, n) ==
    \/ \A t \in 1..n : pcs[t] = "done"
    \/ \E t \in 1..n : pcs[t] = "raised"

\* main writes meta.json again when gather returns, with a terminal status
main_gather_done_marks_completed ==
    /\ mainpc = "gather"
    /\ gather_ends(pc, Len(tasks))
    /\ mainpc' = "done"
    /\ meta' = [meta EXCEPT !.writes = @ + 1, !.status = "completed"]
    /\ pc' = [t \in Tasks |->
                IF t \in TaskIds /\ pc[t] \notin {"done", "raised"}
                THEN "cancelled" ELSE pc[t]]
    /\ UNCHANGED <<site_config, links, tasks, semaphore, fetch_i>>
    /\ UNCHANGED <<title, content_lines, content, reported, logged_error>>
    /\ UNCHANGED <<novel_files, novel_dir, chapter_files, index_file>>
    /\ UNCHANGED <<limit, site_toc, storage_vars, call_vars>>

\* lines 193-197: gather returns or raises and main ends; asyncio.run
\* cancels the tasks that are still pending
main_gather_done ==
    /\ mainpc = "gather"
    /\ gather_ends(pc, Len(tasks))
    /\ mainpc' = "done"
    /\ pc' = [t \in Tasks |->
                IF t \in TaskIds /\ pc[t] \notin {"done", "raised"}
                THEN "cancelled" ELSE pc[t]]
    /\ UNCHANGED <<site_config, links, tasks, semaphore, fetch_i>>
    /\ UNCHANGED <<title, content_lines, content, reported, logged_error>>
    /\ UNCHANGED <<limit, site_toc, disk_vars, storage_vars, call_vars>>

\* ------------------------------------------------------------------------
\* download_chapter(), lines 96-120, and save_chapter(), lines 83-94
\* ------------------------------------------------------------------------
\* an admission test that also admits at value 0
semaphore_free_at_zero(value) == value >= 0

\* an admission test that keeps one slot back
semaphore_free_above_one(value) == value > 1

\* Semaphore.acquire proceeds without waiting when the value is positive
semaphore_free(value) == value > 0

\* "if title or content"
should_save_either(t, c) == Truthy(t) \/ c # <<>>

\* "if title and content"
should_save(t, c) == Truthy(t) /\ c # <<>>

\* a handler that lets the error leave save_chapter
save_chapter_reraise == "raise"

\* save_chapter's "except Exception": the error is logged, not re-raised
save_chapter_except == "log"

Running(t) == t \in TaskIds /\ mainpc = "gather"

\* The tasks reach line 98 in the order create_task scheduled them, and a
\* released semaphore wakes its waiters first come, first served: no task
\* created before t is still waiting when t enters.
first_waiter(t) == \A u \in 1..(t - 1) : pc[u] # "wait"

\* lines 98-100: the task enters the semaphore and calls fetch
dc_acquire(t) ==
    /\ Running(t)
    /\ pc[t] = "wait"
    /\ first_waiter(t)
    /\ semaphore_free(semaphore)
    /\ semaphore' = semaphore - 1
    /\ pc' = [pc EXCEPT ![t] = "fetch"]
    /\ fetch_i' = [fetch_i EXCEPT ![t] = 0]
    /\ UNCHANGED <<mainpc, site_config, links, tasks>>
    /\ UNCHANGED <<title, content_lines, content, reported, logged_error>>
    /\ UNCHANGED <<limit, site_toc, disk_vars, storage_vars, call_vars>>

\* line 100: a pass of fetch raises and fetch goes on to its next pass
dc_fetch_retry(t) ==
    /\ Running(t)
    /\ pc[t] = "fetch"
    /\ \E o \in Outcomes :
          /\ ~fetch_pass(fetch_i[t], o, encoding_arg(t)).returned
          /\ fetch_i' = [fetch_i EXCEPT ![t] =
                            fetch_pass(fetch_i[t], o, encoding_arg(t)).i]
    /\ UNCHANGED <<mainpc, site_config, links, tasks, semaphore>>
    /\ UNCHANGED <<limit, site_toc, disk_vars, task_vars, storage_vars, call_vars>>

\* lines 100-103: fetch returns nothing; the task prints the failure and
\* returns, leaving the semaphore
dc_fetch_failed(t) ==
    /\ Running(t)
    /\ pc[t] = "fetch"
    /\ \E o \in Outcomes :
          /\ fetch_pass(fetch_i[t], o, encoding_arg(t)).returned
          /\ Falsy(fetch_pass(fetch_i[t], o, encoding_arg(t)).value)
    /\ fetch_i' = [fetch_i EXCEPT ![t] = 0]
    /\ reported' = [reported EXCEPT ![t] = "fetch_failed"]
    /\ semaphore' = semaphore + 1
    /\ pc' = [pc EXCEPT ![t] = "done"]
    /\ UNCHANGED <<mainpc, site_config, links, tasks>>
    /\ UNCHANGED <<title, content_lines, content, logged_error>>
    /\ UNCHANGED <<limit, site_toc, disk_vars, storage_vars, call_vars>>

\* lines 100-118: fetch returns the html and the selectors are applied;
\* save_chapter is called, or the parse failure is printed and the task
\* goes to the delay
dc_extract(t) ==
    /\ Running(t)
    /\ pc[t] = "fetch"
    /\ \E o \in Outcomes :
          /\ fetch_pass(fetch_i[t], o, encoding_arg(t)).returned
          /\ ~Falsy(fetch_pass(fetch_i[t], o, encoding_arg(t)).value)
    /\ fetch_i' = [fetch_i EXCEPT ![t] = 0]
    /\ \E ti \in SelTitles, ls \in SelLines :
          /\ title' = [title EXCEPT ![t] = ti]
          /\ content_lines' = [content_lines EXCEPT ![t] = ls]
          /\ content' = [content EXCEPT ![t] = chapter_content(ls)]
          /\ IF should_save(ti, chapter_content(ls))
             THEN /\ pc' = [pc EXCEPT ![t] = "save_open"]
                  /\ UNCHANGED reported
             ELSE /\ pc' = [pc EXCEPT ![t] = "delay"]
                  /\ reported' = [reported EXCEPT ![t] = "parse_failed"]
    /\ UNCHANGED logged_error
    /\ UNCHANGED <<mainpc, site_config, links, tasks, semaphore>>
    /\ UNCHANGED <<limit, site_toc, disk_vars, storage_vars, call_vars>>

task_file(t) == chapter_filename(tasks[t].idx, title[t][1])

\* line 90: the file is opened for writing (created or truncated)
save_open(t) ==
    /\ Running(t)
    /\ pc[t] = "save_open"
    /\ novel_files' = Put(novel_files, task_file(t), <<>>)
    /\ pc' = [pc EXCEPT ![t] = "write_title"]
    /\ UNCHANGED <<title, content_lines, content, reported, logged_error>>
    /\ UNCHANGED <<meta, novel_dir, chapter_files, index_file>>
    /\ UNCHANGED <<limit, site_toc, main_vars, storage_vars, call_vars>>

\* line 91
save_write_title(t) ==
    /\ Running(t)
    /\ pc[t] = "write_title"
    /\ novel_files' = [novel_files EXCEPT ![task_file(t)] =
                          write_at(@, 1, title_chunk(title[t][1]))]
    /\ pc' = [pc EXCEPT ![t] = "write_content"]
    /\ UNCHANGED <<title, content_lines, content, reported, logged_error>>
    /\ UNCHANGED <<meta, novel_dir, chapter_files, index_file>>
    /\ UNCHANGED <<limit, site_toc, main_vars, storage_vars, call_vars>>

\* line 92, the file is closed, save_chapter returns, line 116 prints
save_write_content(t) ==
    /\ Running(t)
    /\ pc[t] = "write_content"
    /\ novel_files' = [novel_files EXCEPT ![task_file(t)] =
                          write_at(@, 2, content[t])]
    /\ reported' = [reported EXCEPT ![t] = "saved"]
    /\ pc' = [pc EXCEPT ![t] = "delay"]
    /\ UNCHANGED <<title, content_lines, content, logged_error>>
    /\ UNCHANGED <<meta, novel_dir, chapter_files, index_file>>
    /\ UNCHANGED <<limit, site_toc, main_vars, storage_vars, call_vars>>

\* lines 90-94: opening or writing raises; the handler logs the error,
\* save_chapter returns and line 116 prints.  (Were the error to leave
\* save_chapter, it would leave the task, releasing the semaphore.)
save_raises(t) ==
    /\ Running(t)
    /\ pc[t] \in {"save_open", "write_title", "write_content"}
    /\ IF save_chapter_except = "log"
       THEN /\ logged_error' = [logged_error EXCEPT ![t] = TRUE]
            /\ reported' = [reported EXCEPT ![t] = "saved"]
            /\ pc' = [pc EXCEPT ![t] = "delay"]
            /\ UNCHANGED semaphore
       ELSE /\ pc' = [pc EXCEPT ![t] = "raised"]
            /\ semaphore' = semaphore + 1
            /\ UNCHANGED <<logged_error, reported>>
    /\ UNCHANGED <<title, content_lines, content>>
    /\ UNCHANGED <<mainpc, site_config, links, tasks, fetch_i>>
    /\ UNCHANGED <<limit, site_toc, disk_vars, storage_vars, call_vars>>

\* line 120 is over: the task leaves the semaphore and returns
dc_delay_done(t) ==
    /\ Running(t)
    /\ pc[t] = "delay"
    /\ semaphore' = semaphore + 1
    /\ pc' = [pc EXCEPT ![t] = "done"]
    /\ title' = [title EXCEPT ![t] = None]
    /\ content_lines' = [content_lines EXCEPT ![t] = <<>>]
    /\ content' = [content EXCEPT ![t] = <<>>]
    /\ UNCHANGED <<reported, logged_error>>
    /\ UNCHANGED <<mainpc, site_config, links, tasks, fetch_i>>
    /\ UNCHANGED <<limit, site_toc, disk_vars, storage_vars, call_vars>>

Next ==
    \/ main_no_rule
    \/ main_rule_found
    \/ main_toc_retry
    \/ main_toc_failed
    \/ main_create_tasks
    \/ main_gather_done
    \/ \E t \in Tasks :
          \/ dc_acquire(t)
          \/ dc_fetch_retry(t)
          \/ dc_fetch_failed(t)
          \/ dc_extract(t)
          \/ save_open(t)
          \/ save_write_title(t)
          \/ save_write_content(t)
          \/ save_raises(t)
          \/ dc_delay_done(t)

Spec == Init /\ [][Next]_vars

\* The event loop runs every callback that is ready: the await of a
\* session.get ends (timeout=15), a sleep ends, a file operation ends, and
\* a released semaphore wakes its first waiter.  While a step of main or
\* of a task is possible, one is taken.
LiveSpec == Spec /\ WF_vars(Next)

\* ------------------------------------------------------------------------
\* One call of fetch(session, url, encoding), lines 41-81
\* ------------------------------------------------------------------------
AllOutcomes ==
    {GetRaises, ReadRaises}
    \cup {Response(s, NoBody) : s \in Statuses \ {200}}
    \cup {Response(200, raw) : raw \in AllBodies}

FetchInit ==
    /\ limit = 1
    /\ site_toc = <<>>
    /\ index_file = NoIndexFile
    /\ chapter_files = EmptyMap
    /\ PipelineIdle
    /\ StorageIdle
    /\ call_pc = "get"
    /\ call_encoding \in Hints
    /\ call_i = 0
    /\ call_ret = NoText
    /\ call_gets = 0
    /\ call_resp = 0
    /\ call_body = NoBody

\* one pass of the loop, met by the outcome o
fetch_attempt(o) ==
    /\ call_gets' = call_gets + 1
    /\ call_resp' = o.status
    /\ call_body' = o.raw
    /\ call_i' = fetch_pass(call_i, o, call_encoding).i
    /\ call_ret' = fetch_pass(call_i, o, call_encoding).value
    /\ call_pc' = IF fetch_pass(call_i, o, call_encoding).returned
                  THEN "returned" ELSE "get"
    /\ UNCHANGED call_encoding
    /\ UNCHANGED <<pipeline_vars, chapter_files, index_file, storage_vars>>

\* line 45 raises
fetch_get_raises ==
    /\ call_pc = "get"
    /\ fetch_attempt(GetRaises)

\* line 45 yields status 200 and line 48 raises
fetch_read_raises ==
    /\ call_pc = "get"
    /\ fetch_attempt(ReadRaises)

\* line 45 yields a response (and line 48 its body when the status is 200)
fetch_response ==
    /\ call_pc = "get"
    /\ \E o \in AllOutcomes : o.kind = "response" /\ fetch_attempt(o)

FetchNext ==
    \/ fetch_get_raises
    \/ fetch_read_raises
    \/ fetch_response

FetchSpec == FetchInit /\ [][FetchNext]_vars

\* ------------------------------------------------------------------------
\* StorageHandler.save_chapter, storage.py lines 63-92, with crashes
\* ------------------------------------------------------------------------
\* the chapters handed to save_chapter
ChapterTitle == <<"T", "/", "1", " ">>
SaveArgs ==
    {[idx |-> 1, title |-> ChapterTitle, content |-> <<"a">>,
      url |-> urljoin(UrlOf(1))],
     [idx |-> 2, title |-> ChapterTitle, content |-> <<"a", "\n", "b">>,
      url |-> urljoin(UrlOf(2))],
     [idx |-> 3, title |-> <<"U">>, content |-> <<"c">>,
      url |-> urljoin(UrlOf(3))]}

\* __init__ in a fresh downloads directory
StorageInit ==
    /\ limit = 1
    /\ site_toc = <<>>
    /\ PipelineIdle
    /\ chapter_files = EmptyMap
    /\ index_file = NoIndexFile
    /\ downloaded_chapters = load_index(NoIndexFile)
    /\ save_pc = [c \in Calls |-> "idle"]
    /\ save_args = [c \in Calls |-> NoArgs]
    /\ save_result = [c \in Calls |-> "none"]
    /\ save_failed = [c \in Calls |-> "none"]
    /\ CallIdle

\* a file name numbered by the order of the calls instead of the chapter
\* index
call_file_by_call(c) == storage_filename(c, save_args[c].title)

\* lines 67-69: the file of the call's chapter
call_file(c) == storage_filename(save_args[c].idx, save_args[c].title)

\* a dump of the entry of the saved url only
index_dump_own_entry(index, url) == [u \in {url} |-> index[u]]

\* json.dump(self.downloaded_chapters, f): the whole in-memory map
index_dump(index, url) == index

\* lines 91-92: "except Exception" logs the error; save_chapter returns
\* as it does after a success
storage_except == "log"

after_error == IF storage_except = "log" THEN "returned" ELSE "raised"

\* lines 63-69: save_chapter(idx, title, content, url) is called; the
\* calls are numbered in the order they are made
sh_call(c) ==
    /\ save_pc[c] = "idle"
    /\ \A b \in 1..(c - 1) : save_pc[b] # "idle"
    /\ \E a \in SaveArgs : save_args' = [save_args EXCEPT ![c] = a]
    /\ save_pc' = [save_pc EXCEPT ![c] = "open"]
    /\ UNCHANGED <<downloaded_chapters, save_result, save_failed>>
    /\ UNCHANGED <<chapter_files, index_file, pipeline_vars, call_vars>>

\* line 73: the chapter file is opened for writing (created or truncated)
sh_open(c) ==
    /\ save_pc[c] = "open"
    /\ chapter_files' = Put(chapter_files, call_file(c), <<>>)
    /\ save_pc' = [save_pc EXCEPT ![c] = "write_title"]
    /\ UNCHANGED <<downloaded_chapters, save_args, save_result, save_failed>>
    /\ UNCHANGED <<index_file, pipeline_vars, call_vars>>

\* line 74
sh_write_title(c) ==
    /\ save_pc[c] = "write_title"
    /\ chapter_files' = [chapter_files EXCEPT ![call_file(c)] =
                            write_at(@, 1, title_chunk(save_args[c].title))]
    /\ save_pc' = [save_pc EXCEPT ![c] = "write_content"]
    /\ UNCHANGED <<downloaded_chapters, save_args, save_result, save_failed>>
    /\ UNCHANGED <<index_file, pipeline_vars, call_vars>>

\* line 75; the file is then being closed
sh_write_content(c) ==
    /\ save_pc[c] = "write_content"
    /\ chapter_files' = [chapter_files EXCEPT ![call_file(c)] =
                            write_at(@, 2, save_args[c].content)]
    /\ save_pc' = [save_pc EXCEPT ![c] = "close"]
    /\ UNCHANGED <<downloaded_chapters, save_args, save_result, save_failed>>
    /\ UNCHANGED <<index_file, pipeline_vars, call_vars>>

\* lines 73-75 raise (open, write or close): lines 91-92
sh_write_raises(c) ==
    /\ save_pc[c] \in {"open", "write_title", "write_content", "close"}
    /\ save_failed' = [save_failed EXCEPT ![c] = "content"]
    /\ save_result' = [save_result EXCEPT ![c] = after_error]
    /\ save_pc' = [save_pc EXCEPT ![c] = "done"]
    /\ UNCHANGED <<downloaded_chapters, save_args>>
    /\ UNCHANGED <<chapter_files, index_file, pipeline_vars, call_vars>>

\* lines 77-89, run without an await once the file is closed: the entry
\* is put into the in-memory map and the map is dumped to index.json
sh_record(c) ==
    /\ save_pc[c] = "close"
    /\ downloaded_chapters' =
          Put(downloaded_chapters, save_args[c].url,
              index_entry(save_args[c].idx, save_args[c].title))
    /\ index_file' = Dumped(index_dump(downloaded_chapters', save_args[c].url))
    /\ save_result' = [save_result EXCEPT ![c] = "returned"]
    /\ save_pc' = [save_pc EXCEPT ![c] = "done"]
    /\ UNCHANGED <<save_args, save_failed>>
    /\ UNCHANGED <<chapter_files, pipeline_vars, call_vars>>

\* lines 77-87 with the dump failing: the map is already updated; open
\* raises and index.json is as it was, or it was truncated and json.dump
\* raises, leaving it torn; then lines 91-92
sh_dump_raises(c) ==
    /\ save_pc[c] = "close"
    /\ downloaded_chapters' =
          Put(downloaded_chapters, save_args[c].url,
              index_entry(save_args[c].idx, save_args[c].title))
    /\ \/ UNCHANGED index_file
       \/ index_file' = TornIndexFile
    /\ save_failed' = [save_failed EXCEPT ![c] = "index"]
    /\ save_result' = [save_result EXCEPT ![c] = after_error]
    /\ save_pc' = [save_pc EXCEPT ![c] = "done"]
    /\ UNCHANGED save_args
    /\ UNCHANGED <<chapter_files, pipeline_vars, call_vars>>

\* a call of the killed process is gone with it
gone(c) == save_pc[c] # "idle"

\* the calls of the process are gone when it is killed; the job is run
\* again and __init__ (lines 29-31) loads the index from index.json
restart ==
    /\ save_pc' = [c \in Calls |-> IF gone(c) THEN "gone" ELSE "idle"]
    /\ save_args' = [c \in Calls |-> NoArgs]
    /\ save_result' = [c \in Calls |-> "none"]
    /\ save_failed' = [c \in Calls |-> "none"]
    /\ downloaded_chapters' = load_index(index_file')

InFlight(c) == save_pc[c] \in {"open", "write_title", "write_content", "close"}

\* the process has never been killed
NoCrash == \A c \in Calls : save_pc[c] # "gone"

\* the step kills the process
CrashesNow == \E c \in Calls : InFlight(c) /\ save_pc'[c] = "gone"

\* The process is killed between two steps of a save and the job is run
\* again.
crash_restart ==
    /\ \E c \in Calls : InFlight(c)
    /\ UNCHANGED index_file
    /\ restart
    /\ UNCHANGED <<chapter_files, pipeline_vars, call_vars>>

\* The process is killed inside lines 86-87, after index.json was
\* truncated and before the dump is complete, and the job is run again.
crash_in_dump(c) ==
    /\ save_pc[c] = "close"
    /\ index_file' = TornIndexFile
    /\ restart
    /\ UNCHANGED <<chapter_files, pipeline_vars, call_vars>>

StorageNext ==
    \/ \E c \in Calls :
          \/ sh_call(c)
          \/ sh_open(c)
          \/ sh_write_title(c)
          \/ sh_write_content(c)
          \/ sh_write_raises(c)
          \/ sh_record(c)
          \/ sh_dump_raises(c)
          \/ crash_in_dump(c)
    \/ crash_restart

StorageSpec == StorageInit /\ [][StorageNext]_vars

\* ------------------------------------------------------------------------
\* Properties of the index (StorageSpec)
\* ------------------------------------------------------------------------
\* the chapter file holds a title chunk and a content chunk, without holes
Complete(chunks) ==
    /\ Len(chunks) = 2
    /\ chunks[1] # Hole
    /\ chunks[2] # Hole

\* C3: in every state, also after a crash inside save_chapter and also
\* when an indexed url is saved again, every url of the persisted index has
\* its chapter file on disk with title and content fully written.
C3_IndexedFilesComplete ==
    \A u \in DOMAIN load_index(index_file) :
        /\ load_index(index_file)[u].file \in DOMAIN chapter_files
        /\ Complete(chapter_files[load_index(index_file)[u].file])

C9_ErrorsReported ==
    \A c \in Calls : save_failed[c] # "none" => save_result[c] = "raised"

ContentWriteFailsNow(c) == save_failed[c] = "none" /\ save_failed'[c] = "content"

\* C9: save_chapter raises a storage error to its caller when the content
\* write or the index write fails, and a failing content write changes
\* neither the in-memory index nor index.json.
C9_StorageErrorRaised ==
    /\ []C9_ErrorsReported
    /\ [][\A c \in Calls : ContentWriteFailsNow(c) =>
             /\ downloaded_chapters' = downloaded_chapters
             /\ index_file' = index_file]_vars

Succeeded(c) == save_pc[c] = "done" /\ save_failed[c] = "none"

C10_AllRecorded ==
    (\A c \in Calls : Succeeded(c)) =>
        \A c \in Calls :
            /\ save_args[c].url \in DOMAIN downloaded_chapters
            /\ save_args[c].url \in DOMAIN load_index(index_file)

\* a step of a save that succeeds
RecordsNow(c) == save_pc[c] = "close" /\ Succeeded(c)'

\* C10: however concurrent saves on one StorageHandler interleave, once all
\* have succeeded the in-memory map and index.json hold an entry for each
\* of their urls, and no save removes an entry recorded before.
C10_NoLostUpdate ==
    /\ []C10_AllRecorded
    /\ [][~CrashesNow =>
             DOMAIN downloaded_chapters \subseteq DOMAIN downloaded_chapters']_vars
    /\ [][\A c \in Calls : RecordsNow(c) =>
             /\ DOMAIN load_index(index_file) \subseteq DOMAIN load_index(index_file')
             /\ DOMAIN downloaded_chapters' \subseteq DOMAIN load_index(index_file')]_vars

\* every save has succeeded, for at least two urls, and each is recorded
C10_TwoUrlsSaved ==
    /\ \A c \in Calls : Succeeded(c)
    /\ Cardinality({save_args[c].url : c \in Calls}) >= 2
    /\ \A c \in Calls : save_args[c].url \in DOMAIN load_index(index_file)

\* ------------------------------------------------------------------------
\* Properties of the pipeline (Spec)
\* ------------------------------------------------------------------------
\* a task between fetch-start and its return
Active(t) == pc[t] \in {"fetch", "save_open", "write_title", "write_content", "delay"}

ActiveTasks == {t \in TaskIds : Active(t)}

\* C1: at most limit tasks are at once past fetch-start and before their
\* return, for every capacity limit >= 1 and every number of tasks.
C1_BoundedConcurrency ==
    /\ limit >= 1
    /\ Cardinality(ActiveTasks) <= limit

\* the gate binds: limit tasks are active and another one waits
C1_GateBinds ==
    /\ Cardinality(ActiveTasks) = limit
    /\ \E t \in TaskIds : pc[t] = "wait"

\* the index and the chapter files the run started with
StartIndexFile == Dumped(PriorIndex(1))
StartChapterFiles == PriorFiles(1)

\* C2: a chapter whose url is a key of the index when the run starts is
\* neither fetched nor extracted during the run, and its chapter file and
\* index entry are unchanged.
C2_DoneChaptersSkipped ==
    \A t \in TaskIds :
        is_downloaded(tasks[t].url, load_index(StartIndexFile)) =>
            /\ pc[t] \in {"wait", "done"}
            /\ reported[t] = "none"
            /\ index_file = StartIndexFile
            /\ chapter_files = StartChapterFiles

\* a task fails in this step
FailsNow(t) ==
    \/ reported[t] = "none" /\ reported'[t] \in {"fetch_failed", "parse_failed"}
    \/ ~logged_error[t] /\ logged_error'[t]
    \/ pc[t] # "raised" /\ pc'[t] = "raised"

SiblingsUntouched(t) ==
    \A u \in Tasks \ {t} :
        /\ pc'[u] = pc[u]
        /\ reported'[u] = reported[u]
        /\ logged_error'[u] = logged_error[u]
        /\ fetch_i'[u] = fetch_i[u]
        /\ title'[u] = title[u]
        /\ content'[u] = content[u]

C4_Barrier ==
    /\ \A t \in TaskIds : pc[t] \notin {"cancelled", "raised"}
    /\ mainpc = "done" =>
          \A t \in TaskIds : pc[t] = "done" /\ reported[t] # "none"

\* C4: the failure of a task (fetch, extraction or storage) leaves every
\* sibling as it is, no task is ever cancelled or aborted, and main ends
\* only when every task has returned with an outcome.
C4_FailuresIsolated ==
    /\ []C4_Barrier
    /\ [][\A t \in Tasks : FailsNow(t) => SiblingsUntouched(t)]_vars

\* the run has ended with a fetch failure, a storage failure and a chapter
\* saved without error side by side
C4_MixedOutcomes ==
    /\ mainpc = "done"
    /\ \E t, u, v \in TaskIds :
          /\ reported[t] = "fetch_failed"
          /\ reported[u] = "saved" /\ logged_error[u]
          /\ reported[v] = "saved" /\ ~logged_error[v]

LinksWithHref == {p \in 1..Len(links) : links[p] # None}

\* C5: the tasks carry the consecutive indices 1..k in discovery order,
\* k the number of links that have the link attribute; a link without it
\* consumes no index.
C5_ConsecutiveIndices ==
    /\ Len(tasks) = Cardinality(LinksWithHref)
    /\ \A k \in 1..Len(tasks) : tasks[k].idx = k

\* every character of every line is whitespace
AllBlank(ls) ==
    \A k \in 1..Len(ls) : \A n \in 1..Len(ls[k]) : ls[k][n] \in Whitespace

Extracted(t) == pc[t] \in {"save_open", "write_title", "write_content", "delay"}

\* no file of the task's chapter index exists in the novel directory
NoFileOf(t) ==
    \A f \in DOMAIN novel_files : f[1] # ZeroPad(Digits(tasks[t].idx), 4)

IndexUntouched ==
    index_file = StartIndexFile /\ downloaded_chapters = EmptyMap

\* C8: a task whose html yields no title, or only content matches that are
\* empty after trimming, ends as a parse failure with no chapter file and
\* no index entry written.
C8_NoSaveOnExtractionFailure ==
    \A t \in TaskIds :
        /\ Extracted(t) /\ (title[t] = None \/ AllBlank(content_lines[t])) =>
              /\ pc[t] = "delay"
              /\ reported[t] = "parse_failed"
              /\ NoFileOf(t)
              /\ IndexUntouched
        /\ reported[t] = "parse_failed" => NoFileOf(t) /\ IndexUntouched

\* a title matched, the content matches are whitespace only
C8_WhitespaceOnlyContent ==
    \E t \in TaskIds :
        /\ pc[t] = "delay"
        /\ title[t] # None
        /\ content_lines[t] # <<>> /\ AllBlank(content_lines[t])
        /\ reported[t] = "parse_failed"

\* ------------------------------------------------------------------------
\* Properties of fetch (FetchSpec)
\* ------------------------------------------------------------------------
Is2xx(status) == status >= 200 /\ status < 300

\* at most RETRIES attempts; every raising attempt is followed by another
\* while budget remains, and the call gives up only with the budget used
C6_Budget ==
    /\ call_gets <= RETRIES
    /\ call_pc = "get" => call_gets = call_i /\ call_gets < RETRIES
    /\ call_pc = "returned" /\ call_body = NoBody /\ call_resp \in {0, 200} =>
          call_gets = RETRIES /\ call_ret = NoText

\* C6 as stated: at most RETRIES attempts, an exception is retried while
\* budget remains, a non-2xx status ends the call at once with None, and
\* None is returned only when every attempt raised or on a non-2xx status.
C6_RetryContract2xx ==
    /\ C6_Budget
    /\ call_resp # 0 /\ ~Is2xx(call_resp) =>
          call_pc = "returned" /\ call_ret = NoText
    /\ call_pc = "returned" /\ call_ret = NoText =>
          \/ call_gets = RETRIES /\ call_i = RETRIES
          \/ call_resp # 0 /\ ~Is2xx(call_resp)

\* C6, amended: at most RETRIES attempts, an exception is retried while
\* budget remains, a status other than 200 ends the call at once with
\* None, and None is returned only when every attempt raised or on a
\* status other than 200.
C6_RetryContract200 ==
    /\ C6_Budget
    /\ call_resp \notin {0, 200} =>
          call_pc = "returned" /\ call_ret = NoText
    /\ call_pc = "returned" /\ call_ret = NoText =>
          \/ call_gets = RETRIES /\ call_i = RETRIES
          \/ call_resp \notin {0, 200}

\* the call has given up after RETRIES raising attempts
C6_GaveUp ==
    /\ call_pc = "returned"
    /\ call_ret = NoText
    /\ call_gets = RETRIES
    /\ call_i = RETRIES

\* the text is a decoding of the body read
DecodedFrom(text, raw) ==
    /\ text # NoText
    /\ text.cls = raw.cls
    /\ text.of = (IF raw.gz = "gzip" THEN "inflated" ELSE "received")

\* line 48 raised on the response of the last attempt
BodyReadFails == call_resp = 200 /\ call_body = NoBody

ReturnsDecoded ==
    /\ call_pc = "returned"
    /\ call_ret # NoText
    /\ call_body \in AllBodies
    /\ DecodedFrom(call_ret, call_body)

\* C7 as stated: on a response with a 2xx status (whose body is read
\* without error) the call returns the decoded body, not None, on that
\* attempt.
C7_Returns2xx ==
    (Is2xx(call_resp) /\ ~BodyReadFails) => ReturnsDecoded

\* C7, amended: on a response with status 200 whose body is read without
\* error, the call returns the decoded body, not None, on that attempt.
C7_Returns200 ==
    (call_resp = 200 /\ ~BodyReadFails) => ReturnsDecoded

\* the call returns on its second attempt the lossy decoding of a body
\* that no candidate decodes
C7_LossyOnSecondAttempt ==
    /\ call_resp = 200
    /\ call_gets = 2
    /\ call_ret.lossy

\* ------------------------------------------------------------------------
\* Properties of the pipeline and the index together (Spec)
\* ------------------------------------------------------------------------
\* the task has returned after a save that met no error
EndedSaved(t) ==
    /\ pc[t] = "done"
    /\ reported[t] = "saved"
    /\ ~logged_error[t]

\* C11: when a task whose fetch and extraction succeeded ends as saved, an
\* entry for its url is recorded in the index and persisted to index.json.
C11_SavedIsIndexed ==
    \A t \in TaskIds :
        EndedSaved(t) =>
            /\ is_downloaded(tasks[t].url, downloaded_chapters)
            /\ is_downloaded(tasks[t].url, load_index(index_file))

\* ------------------------------------------------------------------------
\* Further properties of the index (StorageSpec)
\* ------------------------------------------------------------------------
\* C12: a crash during save_chapter loses no entry that index.json held:
\* the index loaded after the crash has every url persisted before it.
C12_CrashKeepsIndex ==
    [][CrashesNow =>
          DOMAIN load_index(index_file) \subseteq DOMAIN load_index(index_file')]_vars

\* C13: whenever no save_chapter call is in progress, loading index.json
\* yields the in-memory map, also after an index write has failed.
C13_IndexRoundTrip ==
    (\A c \in Calls : ~InFlight(c)) =>
        load_index(index_file) = downloaded_chapters

\* the arguments of the calls made so far
IssuedArgs == {save_args[c] : c \in {b \in Calls : save_pc[b] # "idle"}}

\* calls were made and each has succeeded
AllSucceeded ==
    /\ \E c \in Calls : save_pc[c] # "idle"
    /\ \A c \in Calls : save_pc[c] = "idle" \/ Succeeded(c)

\* the chapter files and the index one save_chapter call for each of the
\* arguments leaves in a fresh directory
FilesOf(args) ==
    [f \in {storage_filename(a.idx, a.title) : a \in args} |->
        LET a == CHOOSE a \in args : storage_filename(a.idx, a.title) = f
        IN  <<title_chunk(a.title), a.content>>]

IndexOf(args) ==
    [u \in {a.url : a \in args} |->
        LET a == CHOOSE a \in args : a.url = u
        IN  index_entry(a.idx, a.title)]

\* C14: the chapter files and the index depend only on which arguments
\* were saved, not on how often: a second save_chapter call with the same
\* idx, title, content and url leaves what the first one left.
C14_SaveIdempotent ==
    AllSucceeded =>
        /\ chapter_files = FilesOf(IssuedArgs)
        /\ downloaded_chapters = IndexOf(IssuedArgs)
        /\ load_index(index_file) = IndexOf(IssuedArgs)

\* two calls with the same arguments have succeeded
C14_SavedTwice ==
    \E b, c \in Calls :
        /\ b # c
        /\ Succeeded(b) /\ Succeeded(c)
        /\ save_args[b] = save_args[c]

\* ------------------------------------------------------------------------
\* Further properties of fetch (FetchSpec)
\* ------------------------------------------------------------------------
\* the codecs in the order of the cascade: the hint unless it is "auto",
\* then the candidates
CascadeOrder(hint) ==
    (IF hint # "auto" THEN <<hint>> ELSE <<>>) \o Candidates

\* the positions of the cascade whose codec decodes bytes of class cls
Decoders(hint, cls) ==
    {k \in 1..Len(CascadeOrder(hint)) : CanDecode(CascadeOrder(hint)[k], cls)}

\* the least element of a non-empty set of positions
FirstOf(ks) == CHOOSE k \in ks : \A j \in ks : k <= j

\* the bytes the cascade is applied to: the decompressed bytes when the
\* body has the gzip magic and decompresses, the received bytes otherwise
DecoderInput(raw) == IF raw.gz = "gzip" THEN "inflated" ELSE "received"

\* C15: decoding is total and is the decoding by the first codec of the
\* cascade [hint unless "auto", utf-8, gb18030, gbk, gb2312, big5] that
\* succeeds, applied to the decompressed bytes of a valid gzip body and to
\* the received bytes otherwise; when no codec succeeds it is the lossy
\* decoding by utf-8, the first candidate.
C15_DecodeCascade ==
    (call_resp = 200 /\ ~BodyReadFails) =>
        /\ call_ret # NoText
        /\ call_ret.of = DecoderInput(call_body)
        /\ call_ret.cls = call_body.cls
        /\ IF Decoders(call_encoding, call_body.cls) # {}
           THEN /\ call_ret.codec =
                     CascadeOrder(call_encoding)[FirstOf(Decoders(call_encoding, call_body.cls))]
                /\ ~call_ret.lossy
           ELSE /\ call_ret.codec = Candidates[1]
                /\ call_ret.lossy

\* the hinted codec fails on the decompressed body and a later candidate
\* decodes it
C15_HintFailsCandidateDecodes ==
    /\ call_pc = "returned"
    /\ call_encoding \notin {"auto", "no-such-codec"}
    /\ call_body.gz = "gzip"
    /\ call_ret # NoText
    /\ ~call_ret.lossy
    /\ call_ret.codec # call_encoding
    /\ call_ret.codec # Candidates[1]

\* ------------------------------------------------------------------------
\* Progress of the pipeline (LiveSpec)
\* ------------------------------------------------------------------------
\* the task has returned with an outcome printed
Terminal(t) == pc[t] = "done" /\ reported[t] # "none"

\* main has ended, every task is terminal and every slot of the semaphore
\* is free
RunComplete ==
    /\ mainpc = "done"
    /\ \A t \in TaskIds : Terminal(t)
    /\ novel_dir => semaphore = limit

\* C16: under fair scheduling the run completes for every table of
\* contents and all outcomes of fetch, extraction and saving: every task
\* reaches a terminal state, every slot is released, and no task waits for
\* admission forever: a task leaves the wait only by being admitted, and
\* in the end none is waiting.
C16_RunTerminates ==
    /\ <>[]RunComplete
    /\ [][\A t \in Tasks : pc[t] = "wait" /\ pc'[t] # "wait" => pc'[t] = "fetch"]_vars

\* a run with more tasks than slots is complete
C16_CompleteAfterWaiting ==
    /\ RunComplete
    /\ Len(tasks) > limit
    /\ \E t \in TaskIds : reported[t] = "saved"
    /\ \E t \in TaskIds : reported[t] # "saved"

\* ------------------------------------------------------------------------
\* Further properties of the pipeline (Spec)
\* ------------------------------------------------------------------------
\* nothing was created and no fetch was begun
Untouched ==
    /\ ~novel_dir
    /\ meta.writes = 0
    /\ novel_files = EmptyMap
    /\ chapter_files = StartChapterFiles
    /\ index_file = StartIndexFile
    /\ downloaded_chapters = EmptyMap
    /\ tasks = <<>>
    /\ \A c \in Callers : fetch_i[c] = 0

\* a fetch is in progress: session.get is called from these positions only
Fetching == mainpc = "toc_fetch" \/ \E t \in Tasks : pc[t] = "fetch"

\* C17: when no rule is found for the target url, main ends before any
\* request is made and before a directory, meta.json, a chapter file or an
\* index entry is created.
C17_NoRuleNoEffects ==
    /\ [](site_config = "unset" =>
             /\ mainpc \in {"start", "done"}
             /\ ~Fetching
             /\ Untouched)
    /\ [][mainpc = "start" /\ site_config' = "unset" =>
             mainpc' = "done" /\ UNCHANGED <<disk_vars, task_vars, tasks, fetch_i>>]_vars

\* main has ended for want of a rule
C17_EndedWithoutRule ==
    /\ mainpc = "done"
    /\ site_config = "unset"
    /\ Untouched

\* the task is in save_chapter
Persisting(t) == pc[t] \in {"save_open", "write_title", "write_content"}

\* the slots taken are those of the tasks between line 98 and their
\* return, the delay included
SlotsHeld == novel_dir => semaphore = limit - Cardinality(ActiveTasks)

\* C18: a task that reached save_chapter goes, whether the save succeeds
\* or fails, to the delay with its slot still held, and gives the slot
\* back only when the delay is over; no task is admitted while every slot
\* is held by a task that fetches, saves or sits in its delay.
C18_DelayBeforeRelease ==
    /\ []SlotsHeld
    /\ [][\A t \in Tasks :
             /\ Persisting(t) /\ ~Persisting(t)' =>
                   pc'[t] = "delay" /\ semaphore' = semaphore
             /\ pc[t] = "delay" /\ pc'[t] # "delay" =>
                   pc'[t] = "done" /\ semaphore' = semaphore + 1
             /\ pc[t] = "wait" /\ pc'[t] = "fetch" =>
                   Cardinality(ActiveTasks) < limit]_vars

\* a task whose save failed sits in its delay holding the last slot while
\* another task waits
C18_FailedSaveDelays ==
    \E t, u \in TaskIds :
        /\ pc[t] = "delay"
        /\ logged_error[t]
        /\ pc[u] = "wait"
        /\ semaphore = 0

\* a chapter task has begun (it has been admitted or has ended)
Begun(t) == pc[t] \notin {"none", "wait"}

\* C19: meta.json is written once, with status "downloading", after the
\* table of contents was fetched and before any chapter task begins to
\* fetch; it is never written again, so its status never becomes terminal.
C19_MetaWrittenOnce ==
    /\ [](/\ meta.writes <= 1
          /\ meta.writes = 1 => meta.status = "downloading"
          /\ mainpc \in {"start", "toc_fetch"} => meta.writes = 0
          /\ mainpc = "gather" => meta.writes = 1
          /\ \A t \in Tasks : Begun(t) => meta.writes = 1)
    /\ [][/\ meta.writes = 1 => meta' = meta
          /\ meta' # meta =>
                /\ mainpc = "toc_fetch"
                /\ \A t \in Tasks : ~Begun(t) /\ ~Begun(t)']_vars

\* the run has ended with chapters saved and the metadata as first written
C19_StillDownloading ==
    /\ mainpc = "done"
    /\ \E t \in TaskIds : reported[t] = "saved"
    /\ meta = [writes |-> 1, total_chapters |-> Len(links), status |-> "downloading"]

\* the chapter file of the task holds the title and the content
FileWritten(t) ==
    \E f \in DOMAIN novel_files :
        /\ f[1] = ZeroPad(Digits(tasks[t].idx), 4)
        /\ Complete(novel_files[f])

\* C20: a task is reported as saved only if the write of its chapter file
\* completed without error.
C20_SavedOnlyIfWritten ==
    \A t \in TaskIds :
        reported[t] = "saved" => ~logged_error[t] /\ FileWritten(t)

====
